---- MODULE Spec2Model ----
(***************************************************************************)
(* Memory pool manager (mem-poolman): per chunk type a singly linked list  *)
(* of pools and an aggregate counter of free chunks; the pool headers      *)
(* themselves live in chunks of a dedicated pool (mem_PoolForPoolHeaders). *)
(* The single-pool mechanics (mem-pool) and the heap (mem-heap) are the    *)
(* collaborators whose interface the pool manager calls.                   *)
(***************************************************************************)
EXTENDS Integers, FiniteSets, Sequences, TLC

\* ---------------------------------------------------------------- bounds
\* Number of mem_PoolsAlloc / mem_PoolsFree calls explored in one run.
MaxCalls == 12

\* The same, for the runs on chunk type 0 alone.
MaxCallsDeep == 17

\* The same, for the runs on all chunk types.
MaxCallsWide == 7

\* The same, for the callers that free from the ends of what they hold.
MaxCallsOrdered == 26

\* The same, for the callers that free the lowest chunk they hold of a pool.
MaxCallsChain == 25

\* The same, for the runs over the sizes of a pool header, and the largest
\* size of a pool header tried.
MaxCallsSizes == 4

MaxSizeofPoolState == 64

\* Bytes of the heap area: room for the pool of pool headers and 104 bytes
\* more, which hold two pools of 4 byte chunks, or one of 4 and one of 8.
HeapSize == 236

\* Bytes of a heap area with room for a pool of every chunk type and one more.
HeapSizeLarge == 1180

\* Number of calls in the runs on all chunk types in the large heap area, and
\* the chunks of a type other than 0 the callers hold in those runs.
MaxCallsLarge == 9

MaxHeldLarge == 1

\* ------------------------------------------------- constants of the build
NULL == 0

\* First address of the heap area.
HeapBase == 64

\* sizeof (mword_t)
SizeofMword == 4

\* sizeof (mem_PoolState_t): eight word-sized fields.
SizeofPoolState == 32

\* Number of chunk types (4, 8, 16, 32 and 64 byte chunks).
MEM_POOL_CHUNK_TYPE__COUNT == 5

\* "Space, at least for four pool headers and a bitmap entry."
PoolHeadersInSpace == 4

\* "Space, at least for eight chunks and a bitmap entry."
ChunksInSpace == 8

ChunkTypes == 0 .. (MEM_POOL_CHUNK_TYPE__COUNT - 1)

\* The chunk types most callers use: 4 and 8 byte chunks.
CallerTypes == {0, 1}

\* ------------------------------------------------------------------ state
VARIABLES
  initialized,              \* mem_PoolsInit has run
  mem_Pools,                \* chunk type -> first pool header of the list, or NULL
  mem_FreeChunksNumber,     \* chunk type -> number of free chunks
  mem_PoolForPoolHeaders,   \* the pool containing pool headers
  mem_SpaceForPoolForPoolHeaders,
  poolMem,                  \* header chunk address -> mem_PoolState_t stored there
  heap,                     \* blocks the heap has handed out: [start, size]
  heapSize,                 \* bytes of the heap area
  sizeofPoolState,          \* sizeof (mem_PoolState_t) of the build
  fault,                    \* "none", or how the program stopped
  calls,                    \* calls made so far
  live,                     \* chunk type -> chunks the caller holds
  hist,                     \* chunk type -> calls since its list was last empty
  last                      \* what the latest call did

vars == <<initialized, mem_Pools, mem_FreeChunksNumber, mem_PoolForPoolHeaders,
          mem_SpaceForPoolForPoolHeaders, poolMem, heap, heapSize,
          sizeofPoolState, fault, calls, live, hist, last>>

\* ------------------------------------------------------ mem_PoolState_t
\* A pool header whose bytes are all zero (static storage, or a chunk nobody wrote).
ZeroPool ==
  [m_pPoolStart |-> NULL, m_PoolSize |-> 0, m_ChunkSize |-> 0, m_pChunks |-> NULL,
   m_ChunksNumber |-> 0, m_FreeChunksNumber |-> 0, m_pNextPool |-> NULL, bitmap |-> {}]

Pow2(n) == 2 ^ n

\* mem_GetChunkSize: 1u << (chunkTypeId + 2)
mem_GetChunkSize(chunkType) == Pow2(chunkType + 2)

\* mem_SizeToPoolChunkType: the smallest chunk type whose chunk holds `size` bytes.
mem_SizeToPoolChunkType(size) ==
  CHOOSE t \in ChunkTypes :
    /\ mem_GetChunkSize(t) >= size
    /\ \A u \in ChunkTypes : mem_GetChunkSize(u) >= size => t <= u

\* ------------------------------------------------------------- mem-heap
HeapAlignment == SizeofMword

\* mem_HeapRecommendAllocationSize: the request rounded up to the heap's alignment.
mem_HeapRecommendAllocationSize(size) ==
  ((size + HeapAlignment - 1) \div HeapAlignment) * HeapAlignment

HeapFits(h, a, size) ==
  /\ a + size <= HeapBase + heapSize
  /\ \A b \in h : a + size <= b.start \/ b.start + b.size <= a

\* The start of every gap of the heap area.
HeapGapStarts(h) == {HeapBase} \cup {b.start + b.size : b \in h}

\* mem_HeapAllocBlock: the addresses the heap may return for a block of `size`
\* bytes: the start of any gap that holds it, and NULL only when no gap does.
mem_HeapAllocBlock(h, size) ==
  LET fits == {a \in HeapGapStarts(h) : HeapFits(h, a, size)}
  IN  IF fits = {} THEN {NULL} ELSE fits

\* mem_HeapFreeBlock
mem_HeapFreeBlock(h, ptr) == {b \in h : b.start # ptr}

\* ------------------------------------------------------------- mem-pool
RECURSIVE BitmapAreaSize(_, _, _)
\* Bytes of bitmap in front of the chunks: whole words, one bit per chunk.
BitmapAreaSize(poolSize, chunkSize, area) ==
  IF area >= poolSize \/ area * 8 >= (poolSize - area) \div chunkSize
  THEN area
  ELSE BitmapAreaSize(poolSize, chunkSize, area + SizeofMword)

\* mem_PoolInit: the header of a pool over [poolStart, poolStart + poolSize),
\* all chunks free.
mem_PoolInit(chunkSize, poolStart, poolSize) ==
  LET area == BitmapAreaSize(poolSize, chunkSize, SizeofMword)
      n    == IF area >= poolSize THEN 0 ELSE (poolSize - area) \div chunkSize
  IN  [m_pPoolStart |-> poolStart, m_PoolSize |-> poolSize, m_ChunkSize |-> chunkSize,
       m_pChunks |-> poolStart + area, m_ChunksNumber |-> n,
       m_FreeChunksNumber |-> n, m_pNextPool |-> NULL, bitmap |-> {}]

ChunkAddr(pool, i) == pool.m_pChunks + i * pool.m_ChunkSize

ChunkIndex(pool, pChunk) == (pChunk - pool.m_pChunks) \div pool.m_ChunkSize

FirstFreeChunk(pool) ==
  CHOOSE i \in 0 .. (pool.m_ChunksNumber - 1) :
    /\ i \notin pool.bitmap
    /\ \A j \in 0 .. (i - 1) : j \in pool.bitmap

\* mem_PoolAllocChunk, the pointer returned: the first free chunk, NULL if none.
mem_PoolAllocChunk(pool) ==
  IF pool.m_FreeChunksNumber = 0 THEN NULL ELSE ChunkAddr(pool, FirstFreeChunk(pool))

\* mem_PoolAllocChunk, the pool afterwards.
PoolAfterAlloc(pool) ==
  IF pool.m_FreeChunksNumber = 0 THEN pool
  ELSE [pool EXCEPT !.bitmap = @ \cup {FirstFreeChunk(pool)},
                    !.m_FreeChunksNumber = @ - 1]

\* mem_PoolFreeChunk, the pool afterwards.
mem_PoolFreeChunk(pool, pChunk) ==
  [pool EXCEPT !.bitmap = @ \ {ChunkIndex(pool, pChunk)},
               !.m_FreeChunksNumber = @ + 1]

\* The chunk pointers a pool has handed out.
UsedChunks(pool) == {ChunkAddr(pool, i) : i \in pool.bitmap}

\* ---------------------------------------------------------- mem-poolman
\* The pool headers linked from `poolState` on, in list order.
RECURSIVE PoolList(_, _)
PoolList(mem, poolState) ==
  IF poolState = NULL THEN <<>>
  ELSE <<poolState>> \o PoolList(mem, mem[poolState].m_pNextPool)

Range(s) == {s[i] : i \in DOMAIN s}

RECURSIVE SumOver(_, _)
SumOver(f, S) ==
  IF S = {} THEN 0
  ELSE LET x == CHOOSE y \in S : TRUE IN f[x] + SumOver(f, S \ {x})

\* Size of the space requested for the pool of pool headers (mem_PoolsInit).
HeadersSpaceSize ==
  mem_HeapRecommendAllocationSize(PoolHeadersInSpace * sizeofPoolState + SizeofMword)

\* Size of the space requested for a new pool of chunks of `chunkSize` bytes.
PoolSpaceSize(chunkSize) ==
  mem_HeapRecommendAllocationSize(ChunksInSpace * chunkSize + SizeofMword)

\* The slip of allocating a new pool while one chunk is still free.
NoFreeChunksOffByOne(chunkType) == mem_FreeChunksNumber[chunkType] <= 1

\* "If there are no free chunks, allocate new pool."
NoFreeChunks(chunkType) == mem_FreeChunksNumber[chunkType] = 0

\* The slip of going on without a header chunk.
HeaderObtainedAlways(poolState) == TRUE

\* "Not enough space for new pool' header" unless the pool of pool headers
\* gave a chunk.
HeaderObtained(poolState) == poolState # NULL

\* "Not enough memory" unless the heap gave the pool space.
SpaceObtained(poolSpace) == poolSpace # NULL

\* The new pool, linked in front of the list.
LinkNewPool(pool, head) == [pool EXCEPT !.m_pNextPool = head]

\* The slip of counting one chunk more than the new pool has.
CounterAfterGrowOneMore(n, pool) == n + pool.m_FreeChunksNumber + 1

\* mem_FreeChunksNumber[ chunkType ] += poolState->m_FreeChunksNumber
CounterAfterGrow(n, pool) == n + pool.m_FreeChunksNumber

\* mem_FreeChunksNumber[ chunkType ]--
CounterAfterAlloc(n) == n - 1

\* The slip of taking any pool with a free chunk, of whatever list.
AllocSearchAnyPool(mem, poolState) ==
  IF \E q \in DOMAIN mem : mem[q].m_FreeChunksNumber # 0
  THEN CHOOSE q \in DOMAIN mem : mem[q].m_FreeChunksNumber # 0
  ELSE NULL

\* The slip of taking the last pool with a free chunk, not the first.
RECURSIVE AllocSearchLast(_, _)
AllocSearchLast(mem, poolState) ==
  IF poolState = NULL THEN NULL
  ELSE LET rest == AllocSearchLast(mem, mem[poolState].m_pNextPool)
       IN  IF rest # NULL THEN rest
           ELSE IF mem[poolState].m_FreeChunksNumber # 0 THEN poolState
           ELSE NULL

\* The search of mem_PoolsAlloc for a pool with a free chunk.
RECURSIVE AllocSearch(_, _)
AllocSearch(mem, poolState) ==
  IF poolState = NULL THEN NULL
  ELSE IF mem[poolState].m_FreeChunksNumber # 0 THEN poolState
  ELSE AllocSearch(mem, mem[poolState].m_pNextPool)

\* What reading through a null pool pointer can do: trap, read bytes that end
\* the walk in the assertion, or go on with whatever it read.
NullDerefOutcomes == {"segv", "assert", "wild"}

\* mem_PoolsAlloc: the state after the call and what it returns, `poolSpace`
\* being the heap's answer to the block request if one is issued.
mem_PoolsAlloc(chunkType, poolSpace, ub) ==
  LET chunkSize  == mem_GetChunkSize(chunkType)
      grow       == NoFreeChunks(chunkType)
      poolState  == IF grow THEN mem_PoolAllocChunk(mem_PoolForPoolHeaders) ELSE NULL
      hdrs1      == IF grow THEN PoolAfterAlloc(mem_PoolForPoolHeaders)
                    ELSE mem_PoolForPoolHeaders
      asked      == grow /\ HeaderObtained(poolState)
      poolSpaceSize == PoolSpaceSize(chunkSize)
      grown      == asked /\ SpaceObtained(poolSpace)
      failed     == grow /\ ~grown
      newPool    == LinkNewPool(mem_PoolInit(chunkSize, poolSpace, poolSpaceSize),
                                mem_Pools[chunkType])
      mem1       == IF grown THEN [poolMem EXCEPT ![poolState] = newPool] ELSE poolMem
      head1      == IF grown THEN poolState ELSE mem_Pools[chunkType]
      free1      == IF grown
                    THEN CounterAfterGrow(mem_FreeChunksNumber[chunkType], newPool)
                    ELSE mem_FreeChunksNumber[chunkType]
      heap1      == IF grown
                    THEN heap \cup {[start |-> poolSpace, size |-> poolSpaceSize]}
                    ELSE heap
      found      == AllocSearch(mem1, head1)
      stop       == IF failed THEN "none"
                    ELSE IF head1 = NULL THEN ub
                    ELSE IF found = NULL THEN "assert"
                    ELSE "none"
      take       == ~failed /\ stop = "none"
  IN  [pools   |-> [mem_Pools EXCEPT ![chunkType] = head1],
       free    |-> [mem_FreeChunksNumber EXCEPT
                      ![chunkType] = IF take THEN CounterAfterAlloc(free1) ELSE free1],
       headers |-> hdrs1,
       mem     |-> IF take THEN [mem1 EXCEPT ![found] = PoolAfterAlloc(@)] ELSE mem1,
       heap    |-> heap1,
       ret     |-> IF take THEN mem_PoolAllocChunk(mem1[found]) ELSE NULL,
       fault   |-> stop,
       hdrReq  |-> IF grow THEN 1 ELSE 0,
       heapReq |-> IF asked THEN 1 ELSE 0,
       grown   |-> grown]

\* The slip of testing the upper end of the range alone.
InPoolRangeNoLowerBound(pool, pChunk) ==
  pChunk <= pool.m_pPoolStart + pool.m_PoolSize

\* The slip of letting the range reach one word further.
InPoolRangeWide(pool, pChunk) ==
  /\ pChunk >= pool.m_pChunks
  /\ pChunk <= pool.m_pPoolStart + pool.m_PoolSize + SizeofMword

\* The range test of mem_PoolsFree: from the first chunk up to and including the
\* address just past the pool space.
InPoolRange(pool, pChunk) ==
  /\ pChunk >= pool.m_pChunks
  /\ pChunk <= pool.m_pPoolStart + pool.m_PoolSize

\* The search of mem_PoolsFree for the pool containing the chunk.
RECURSIVE FreeSearch(_, _, _, _)
FreeSearch(mem, poolState, prevPoolState, pChunk) ==
  IF poolState = NULL THEN [pool |-> NULL, prev |-> prevPoolState]
  ELSE IF InPoolRange(mem[poolState], pChunk)
       THEN [pool |-> poolState, prev |-> prevPoolState]
       ELSE FreeSearch(mem, mem[poolState].m_pNextPool, poolState, pChunk)

\* The slip of leaving the counter as it is when a chunk is freed.
CounterAfterFreeForgotten(n) == n

\* mem_FreeChunksNumber[ chunkType ]++
CounterAfterFree(n) == n + 1

\* The slip of never freeing a pool.
AllChunksFreeNever(pool) == FALSE

\* "If all chunks of the pool are free, free the pool itself."
AllChunksFree(pool) == pool.m_FreeChunksNumber = pool.m_ChunksNumber

\* The slip of leaving the counter as it is when a pool is freed.
CounterAfterPoolFreeForgotten(n, pool) == n

\* mem_FreeChunksNumber[ chunkType ] -= poolState->m_ChunksNumber
CounterAfterPoolFree(n, pool) == n - pool.m_ChunksNumber

\* The slip of handing the heap the space of the pool of pool headers.
SpaceToFreeHeaders(pool) == mem_SpaceForPoolForPoolHeaders

\* The slip of handing the heap the address of the chunks, not of the space.
SpaceToFreeChunks(pool) == pool.m_pChunks

\* mem_HeapFreeBlock( poolState->m_pPoolStart)
SpaceToFree(pool) == pool.m_pPoolStart

\* The slip of keeping the header chunk of a freed pool.
HeadersAfterPoolFreeForgotten(headers, poolState) == headers

\* mem_PoolFreeChunk( &mem_PoolForPoolHeaders, (uint8_t*) poolState)
HeadersAfterPoolFree(headers, poolState) == mem_PoolFreeChunk(headers, poolState)

\* The slip of cutting the list behind the previous pool.
UnlinkPoolDropsRest(mem, prevPoolState, poolState) ==
  IF prevPoolState # NULL
  THEN [mem EXCEPT ![prevPoolState].m_pNextPool = NULL]
  ELSE mem

\* The list with `poolState` taken out: the previous pool's link, or the head.
UnlinkPool(mem, prevPoolState, poolState) ==
  IF prevPoolState # NULL
  THEN [mem EXCEPT ![prevPoolState].m_pNextPool = mem[poolState].m_pNextPool]
  ELSE mem

\* The head of the list with `poolState` taken out.
HeadAfterUnlink(mem, head, prevPoolState, poolState) ==
  IF prevPoolState # NULL THEN head ELSE mem[poolState].m_pNextPool

\* mem_PoolsFree: the state after the call. The bytes of a header chunk given
\* back to the pool of headers are never read again; they are kept as zero.
mem_PoolsFree(chunkType, pChunk, ub) ==
  LET head   == mem_Pools[chunkType]
      s      == FreeSearch(poolMem, head, NULL, pChunk)
      stop   == IF head = NULL THEN ub
                ELSE IF s.pool = NULL THEN "assert"
                ELSE "none"
      ok     == stop = "none"
      pool1  == mem_PoolFreeChunk(poolMem[s.pool], pChunk)
      mem1   == [poolMem EXCEPT ![s.pool] = pool1]
      free1  == CounterAfterFree(mem_FreeChunksNumber[chunkType])
      whole  == ok /\ AllChunksFree(pool1)
  IN  IF ~ok
      THEN [pools |-> mem_Pools, free |-> mem_FreeChunksNumber,
            headers |-> mem_PoolForPoolHeaders, mem |-> poolMem, heap |-> heap,
            fault |-> stop, consolidated |-> FALSE]
      ELSE IF ~whole
      THEN [pools |-> mem_Pools,
            free |-> [mem_FreeChunksNumber EXCEPT ![chunkType] = free1],
            headers |-> mem_PoolForPoolHeaders, mem |-> mem1, heap |-> heap,
            fault |-> "none", consolidated |-> FALSE]
      ELSE [pools |-> [mem_Pools EXCEPT
                         ![chunkType] = HeadAfterUnlink(mem1, head, s.prev, s.pool)],
            free |-> [mem_FreeChunksNumber EXCEPT
                         ![chunkType] = CounterAfterPoolFree(free1, pool1)],
            headers |-> HeadersAfterPoolFree(mem_PoolForPoolHeaders, s.pool),
            mem |-> [UnlinkPool(mem1, s.prev, s.pool) EXCEPT ![s.pool] = ZeroPool],
            heap |-> mem_HeapFreeBlock(heap, SpaceToFree(pool1)),
            fault |-> "none", consolidated |-> TRUE]

\* ------------------------------------------------------------ the callers
\* What the caller remembers of its calls on one chunk type since it last held
\* no chunk of that type: a successful allocations, then f frees; Mixed once an
\* allocation followed a free.
Mixed == [a |-> -1, f |-> -1]

NoHist == [a |-> 0, f |-> 0]

HistAfterAlloc(h, held) ==
  IF held = {} THEN [a |-> 1, f |-> 0]
  ELSE IF h = Mixed \/ h.f > 0 THEN Mixed
  ELSE [h EXCEPT !.a = @ + 1]

HistAfterFree(h) == IF h = Mixed THEN Mixed ELSE [h EXCEPT !.f = @ + 1]

\* What the latest call was and did. pChunk: the pointer an allocation returned,
\* or the pointer passed to a free that is told apart by rt or as a stray one.
\* preFree: the counter of the chunk type before the call. rt: a free released
\* the pointer that the call just before it had returned, or an allocation
\* followed such a free of the same chunk type; same: that allocation returned
\* the pointer again. recycle: 1 for an allocation that got no header chunk, 2
\* for a free right after it that freed a pool, 3 for an allocation right after
\* that free that asked for a header chunk.
NoCall ==
  [op |-> "none", chunkType |-> 0, pChunk |-> NULL, hdrReq |-> 0, heapReq |-> 0,
   grown |-> FALSE, consolidated |-> FALSE, preFree |-> 0, rt |-> FALSE,
   same |-> FALSE, recycle |-> 0]

AllLive == UNION {live[t] : t \in ChunkTypes}

\* The state before mem_PoolsInit: static storage is zero.
InitWith(size, recordSize) ==
  /\ heapSize = size
  /\ sizeofPoolState = recordSize
  /\ initialized = FALSE
  /\ mem_Pools = [t \in ChunkTypes |-> NULL]
  /\ mem_FreeChunksNumber = [t \in ChunkTypes |-> 0]
  /\ mem_PoolForPoolHeaders = ZeroPool
  /\ mem_SpaceForPoolForPoolHeaders = NULL
  /\ poolMem = <<>>
  /\ heap = {}
  /\ fault = "none"
  /\ calls = 0
  /\ live = [t \in ChunkTypes |-> {}]
  /\ hist = [t \in ChunkTypes |-> NoHist]
  /\ last = NoCall

Init == InitWith(HeapSize, SizeofPoolState)

InitLarge == InitWith(HeapSizeLarge, SizeofPoolState)

\* The sizes of a pool header, a structure of words, for which there is a
\* chunk type.
PoolStateSizes ==
  {size \in 1 .. MaxSizeofPoolState :
     /\ size % SizeofMword = 0
     /\ size <= mem_GetChunkSize(MEM_POOL_CHUNK_TYPE__COUNT - 1)}

\* The state before mem_PoolsInit in a build with a pool header of any such size.
InitSizes == \E size \in PoolStateSizes : InitWith(HeapSizeLarge, size)

\* The slip of leaving the pool of pool headers unconstructed.
mem_PoolsInitNoHeaders ==
  /\ ~initialized
  /\ initialized' = TRUE
  /\ last' = [NoCall EXCEPT !.op = "init"]
  /\ UNCHANGED <<mem_Pools, mem_FreeChunksNumber, mem_PoolForPoolHeaders,
                 mem_SpaceForPoolForPoolHeaders, poolMem, heap, heapSize,
                 sizeofPoolState, fault, calls, live, hist>>

\* mem_PoolsInit
mem_PoolsInit ==
  /\ ~initialized
  /\ \E space \in mem_HeapAllocBlock(heap, HeadersSpaceSize) :
       /\ space # NULL
       /\ LET chunkType == mem_SizeToPoolChunkType(sizeofPoolState)
              headers   == mem_PoolInit(mem_GetChunkSize(chunkType), space,
                                        HeadersSpaceSize)
          IN  /\ mem_SpaceForPoolForPoolHeaders' = space
              /\ mem_PoolForPoolHeaders' = headers
              /\ poolMem' = [a \in {ChunkAddr(headers, i) :
                                      i \in 0 .. (headers.m_ChunksNumber - 1)}
                               |-> ZeroPool]
              /\ heap' = heap \cup {[start |-> space, size |-> HeadersSpaceSize]}
  /\ mem_Pools' = [t \in ChunkTypes |-> NULL]
  /\ mem_FreeChunksNumber' = [t \in ChunkTypes |-> 0]
  /\ initialized' = TRUE
  /\ last' = [NoCall EXCEPT !.op = "init"]
  /\ UNCHANGED <<heapSize, sizeofPoolState, fault, calls, live, hist>>

\* A caller allocates a chunk of type `chunkType`.
Alloc(chunkType) ==
  /\ initialized /\ fault = "none"
  /\ \E poolSpace \in
          IF NoFreeChunks(chunkType) /\ mem_PoolAllocChunk(mem_PoolForPoolHeaders) # NULL
          THEN mem_HeapAllocBlock(heap, PoolSpaceSize(mem_GetChunkSize(chunkType)))
          ELSE {NULL} :
     \E ub \in IF ~NoFreeChunks(chunkType) /\ mem_Pools[chunkType] = NULL
               THEN NullDerefOutcomes ELSE {"segv"} :
       LET r == mem_PoolsAlloc(chunkType, poolSpace, ub)
       IN  /\ mem_Pools' = r.pools
           /\ mem_FreeChunksNumber' = r.free
           /\ mem_PoolForPoolHeaders' = r.headers
           /\ poolMem' = r.mem
           /\ heap' = r.heap
           /\ fault' = r.fault
           /\ live' = IF r.ret # NULL
                      THEN [live EXCEPT ![chunkType] = @ \cup {r.ret}] ELSE live
           /\ hist' = IF r.ret # NULL
                      THEN [hist EXCEPT
                              ![chunkType] = HistAfterAlloc(@, live[chunkType])]
                      ELSE hist
           /\ last' = [op |-> "alloc", chunkType |-> chunkType, pChunk |-> r.ret,
                       hdrReq |-> r.hdrReq, heapReq |-> r.heapReq,
                       grown |-> r.grown, consolidated |-> FALSE,
                       preFree |-> mem_FreeChunksNumber[chunkType],
                       rt |-> last.op = "free" /\ last.chunkType = chunkType /\ last.rt,
                       same |-> /\ last.op = "free" /\ last.chunkType = chunkType
                                /\ last.rt /\ last.pChunk = r.ret,
                       recycle |-> IF r.hdrReq = 1 /\ r.heapReq = 0 THEN 1
                                   ELSE IF r.hdrReq = 1 /\ last.recycle = 2 THEN 3
                                   ELSE 0]
  /\ calls' = calls + 1
  /\ UNCHANGED <<initialized, mem_SpaceForPoolForPoolHeaders, heapSize,
                 sizeofPoolState>>

\* The call mem_PoolsFree (chunkType, pChunk), and what the caller notes of it.
FreeCall(op, chunkType, pChunk) ==
  /\ initialized /\ fault = "none"
  /\ \E ub \in IF mem_Pools[chunkType] = NULL THEN NullDerefOutcomes ELSE {"segv"} :
       LET r  == mem_PoolsFree(chunkType, pChunk, ub)
           rt == last.op = "alloc" /\ last.chunkType = chunkType /\ last.pChunk = pChunk
       IN  /\ mem_Pools' = r.pools
           /\ mem_FreeChunksNumber' = r.free
           /\ mem_PoolForPoolHeaders' = r.headers
           /\ poolMem' = r.mem
           /\ heap' = r.heap
           /\ fault' = r.fault
           /\ live' = IF r.fault = "none"
                      THEN [live EXCEPT ![chunkType] = @ \ {pChunk}] ELSE live
           /\ hist' = IF r.fault = "none"
                      THEN [hist EXCEPT ![chunkType] = HistAfterFree(@)] ELSE hist
           /\ last' = [op |-> op, chunkType |-> chunkType,
                       pChunk |-> IF op = "free" /\ ~rt THEN NULL ELSE pChunk,
                       hdrReq |-> 0, heapReq |-> 0, grown |-> FALSE,
                       consolidated |-> r.consolidated,
                       preFree |-> mem_FreeChunksNumber[chunkType],
                       rt |-> rt, same |-> FALSE,
                       recycle |-> IF r.consolidated /\ last.recycle = 1 THEN 2
                                   ELSE 0]
  /\ calls' = calls + 1
  /\ UNCHANGED <<initialized, mem_SpaceForPoolForPoolHeaders, heapSize,
                 sizeofPoolState>>

\* A caller frees a chunk it got from mem_PoolsAlloc for the same chunk type.
Free(chunkType, pChunk) ==
  /\ pChunk \in live[chunkType]
  /\ FreeCall("free", chunkType, pChunk)

\* Pointers that no pool hands out: the bitmap word of the pool of pool
\* headers, and an address above the heap area.
StrayPointers ==
  {mem_SpaceForPoolForPoolHeaders, HeapBase + heapSize + SizeofMword}

\* pChunk lies outside the space of every pool of the list of chunkType, and
\* outside the range mem_PoolsFree tests.
OutsideEveryPool(chunkType, pChunk) ==
  \A p \in Range(PoolList(poolMem, mem_Pools[chunkType])) :
    /\ ~InPoolRange(poolMem[p], pChunk)
    /\ \/ pChunk < poolMem[p].m_pPoolStart
       \/ pChunk > poolMem[p].m_pPoolStart + poolMem[p].m_PoolSize

\* A caller breaks the contract: it frees a pointer that is in no pool of the
\* chunk type.
BadFree(chunkType, pChunk) ==
  /\ OutsideEveryPool(chunkType, pChunk)
  /\ FreeCall("badfree", chunkType, pChunk)

\* The calls of callers that allocate and free 4 byte chunks, and allocate
\* chunks of the other types to keep them, at most `held` of a type.
CallsKeeping(budget, held) ==
  \/ calls < budget /\ \E chunkType \in ChunkTypes :
       /\ chunkType = 0 \/ Cardinality(live[chunkType]) < held
       /\ Alloc(chunkType)
  \/ calls < budget /\ \E pChunk \in live[0] : Free(0, pChunk)

\* The calls of callers that keep the contract, on the chunk types `types`.
Calls(types, budget) ==
  \/ calls < budget /\ \E chunkType \in types : Alloc(chunkType)
  \/ calls < budget /\ \E chunkType \in types :
       \E pChunk \in live[chunkType] : Free(chunkType, pChunk)

\* The lowest and the highest address of a set of pointers.
EndsOf(S) == {x \in S : (\A y \in S : x <= y) \/ (\A y \in S : x >= y)}

\* The calls of callers that use chunk type 0 and free the lowest or the
\* highest chunk they hold.
CallsOrdered(budget) ==
  \/ calls < budget /\ Alloc(0)
  \/ calls < budget /\ \E pChunk \in EndsOf(live[0]) : Free(0, pChunk)

\* The lowest chunk the caller holds of each pool of the chunk type.
LowestOfPools(chunkType) ==
  {pChunk \in live[chunkType] :
     \E q \in Range(PoolList(poolMem, mem_Pools[chunkType])) :
       /\ pChunk \in UsedChunks(poolMem[q])
       /\ \A other \in UsedChunks(poolMem[q]) : pChunk <= other}

\* The calls of callers that use chunk type 0 and free, of the chunks of one
\* pool, the lowest first.
CallsByPool(budget) ==
  \/ calls < budget /\ Alloc(0)
  \/ calls < budget /\ \E pChunk \in LowestOfPools(0) : Free(0, pChunk)

Next ==
  \/ mem_PoolsInit
  \/ Calls(CallerTypes, MaxCalls)

Spec == Init /\ [][Next]_vars

\* The callers use chunk type 0 alone, for longer.
NextDeep ==
  \/ mem_PoolsInit
  \/ Calls({0}, MaxCallsDeep)

SpecDeep == Init /\ [][NextDeep]_vars

\* The callers use every chunk type; the heap area cannot hold the pools of
\* the larger ones.
NextWide ==
  \/ mem_PoolsInit
  \/ Calls(ChunkTypes, MaxCallsWide)

SpecWide == Init /\ [][NextWide]_vars

\* The callers use every chunk type, and the heap area holds all their pools.
NextLarge ==
  \/ mem_PoolsInit
  \/ CallsKeeping(MaxCallsLarge, MaxHeldLarge)

SpecLarge == InitLarge /\ [][NextLarge]_vars

\* The callers use chunk type 0 alone and free from the ends, long enough for
\* a new pool to take the space below an older one.
NextOrdered ==
  \/ mem_PoolsInit
  \/ CallsOrdered(MaxCallsOrdered)

SpecOrdered == Init /\ [][NextOrdered]_vars

\* The callers use chunk type 0 alone in the large heap area, which holds
\* three pools and more.
NextChain ==
  \/ mem_PoolsInit
  \/ CallsByPool(MaxCallsChain)

SpecChain == InitLarge /\ [][NextChain]_vars

\* Builds with a pool header of any size, in the large heap area.
NextSizes ==
  \/ mem_PoolsInit
  \/ CallsKeeping(MaxCallsSizes, MaxHeldLarge)

SpecSizes == InitSizes /\ [][NextSizes]_vars

\* The callers may also free pointers that are in no pool.
NextMisuse ==
  \/ mem_PoolsInit
  \/ Calls(CallerTypes, MaxCalls)
  \/ calls < MaxCalls /\ \E chunkType \in CallerTypes :
       \E pChunk \in StrayPointers \cup (AllLive \ live[chunkType]) :
         BadFree(chunkType, pChunk)

SpecMisuse == Init /\ [][NextMisuse]_vars

\* ------------------------------------------------------------- properties
\* The pool headers linked in the list of a chunk type.
PoolsOf(chunkType) == Range(PoolList(poolMem, mem_Pools[chunkType]))

LinkedPools == UNION {PoolsOf(t) : t \in ChunkTypes}

FreeChunksOf == [p \in DOMAIN poolMem |-> poolMem[p].m_FreeChunksNumber]

\* Number of chunks of a pool of the chunk type.
PoolCapacity(chunkType) ==
  mem_PoolInit(mem_GetChunkSize(chunkType), HeapBase,
               PoolSpaceSize(mem_GetChunkSize(chunkType))).m_ChunksNumber

\* The spaces the heap has handed out for pools of the chunk type.
SpacesOfType(chunkType) ==
  {b \in heap : b.size = PoolSpaceSize(mem_GetChunkSize(chunkType))
                /\ b.start # mem_SpaceForPoolForPoolHeaders}

\* The step is a call of mem_PoolsAlloc, respectively of mem_PoolsFree.
AllocStep == calls' = calls + 1 /\ last'.op = "alloc"

FreeStep == calls' = calls + 1 /\ last'.op = "free"

\* C1: whenever no call is running, the counter of free chunks of every chunk
\* type equals the sum of the free chunks of the pools linked in its list.
AccountingInvariant ==
  initialized =>
    \A t \in ChunkTypes : mem_FreeChunksNumber[t] = SumOver(FreeChunksOf, PoolsOf(t))

\* Two pools are linked for one chunk type, each with a free chunk.
AccountingWitness ==
  \E t \in ChunkTypes :
    /\ Len(PoolList(poolMem, mem_Pools[t])) = 2
    /\ \A p \in PoolsOf(t) : poolMem[p].m_FreeChunksNumber > 0
    /\ last.op = "free"

\* C2: a successful allocation never returns a chunk the caller still holds
\* (of any chunk type), so two allocations in a row never return the same chunk.
AllocationExclusive ==
  [][AllocStep /\ last'.pChunk # NULL => last'.pChunk \notin AllLive]_vars

\* An allocation was served by a newly allocated pool while the caller holds
\* every chunk of the older pool.
AllocationExclusiveWitness ==
  /\ last.op = "alloc" /\ last.grown /\ last.pChunk \in live[last.chunkType]
  /\ Cardinality(live[last.chunkType]) = PoolCapacity(last.chunkType) + 1

\* C3: from holding no chunk of a type, allocating as many chunks as one pool
\* has and then freeing them all, in any order, leaves the list empty, the
\* counter at zero and no pool space of that type with the heap's clients; the
\* next allocation of that type asks the heap for one new space.
ConsolidationHolds ==
  /\ [](\A t \in ChunkTypes :
          hist[t] = [a |-> PoolCapacity(t), f |-> PoolCapacity(t)] =>
            /\ mem_Pools[t] = NULL
            /\ mem_FreeChunksNumber[t] = 0
            /\ SpacesOfType(t) = {})
  /\ [][AllocStep /\ hist[last'.chunkType] = [a |-> PoolCapacity(last'.chunkType),
                                              f |-> PoolCapacity(last'.chunkType)]
          => last'.heapReq = 1 /\ last'.grown /\ last'.pChunk # NULL]_vars

\* All chunks of one pool were allocated, then all were freed; the last free
\* freed the pool.
ConsolidationWitness ==
  /\ hist[0] = [a |-> PoolCapacity(0), f |-> PoolCapacity(0)]
  /\ last.op = "free" /\ last.consolidated

\* C4 as stated: an allocation asks for a header chunk and a pool space if and
\* only if the counter of its chunk type is zero.
GrowthIffCounterZero ==
  [][AllocStep =>
       ((last'.hdrReq = 1 /\ last'.heapReq = 1)
          <=> mem_FreeChunksNumber[last'.chunkType] = 0)]_vars

\* After a allocations and no free since the caller held no chunk of the type,
\* the pools of the type are as many as a chunks need.
GrowthScenario ==
  \A t \in ChunkTypes :
    hist[t].a >= 1 /\ hist[t].f = 0 =>
      Cardinality(SpacesOfType(t))
        = (hist[t].a + PoolCapacity(t) - 1) \div PoolCapacity(t)

\* C4, amended: an allocation asks the pool of pool headers for a chunk if and
\* only if the counter of its chunk type is zero, and then asks the heap for one
\* space if and only if it got the header chunk; a successful allocation has
\* allocated one new pool if the counter was zero and none otherwise. So the
\* first allocations up to a pool's capacity allocate one pool in all, and the
\* next one a second pool.
GrowthThreshold ==
  /\ []GrowthScenario
  /\ [][AllocStep =>
          LET t == last'.chunkType
          IN  /\ last'.hdrReq = 1 <=> mem_FreeChunksNumber[t] = 0
              /\ last'.heapReq = 1 <=>
                   /\ mem_FreeChunksNumber[t] = 0
                   /\ mem_PoolForPoolHeaders.m_FreeChunksNumber > 0
              /\ last'.pChunk # NULL =>
                   (last'.grown <=> mem_FreeChunksNumber[t] = 0)
              /\ Cardinality(heap') =
                   Cardinality(heap) + (IF last'.grown THEN 1 ELSE 0)]_vars

\* The allocation after a pool's capacity allocated a second pool.
GrowthThresholdWitness ==
  \E t \in ChunkTypes :
    /\ hist[t] = [a |-> PoolCapacity(t) + 1, f |-> 0]
    /\ last.op = "alloc" /\ last.chunkType = t /\ last.grown
    /\ Cardinality(SpacesOfType(t)) = 2

\* C5: freeing the chunk that the allocation just before returned puts the
\* counter of the chunk type back to its value before that allocation, and an
\* allocation of the type right after succeeds.
RoundTrip ==
  [][/\ FreeStep /\ last'.rt =>
          mem_FreeChunksNumber'[last'.chunkType] = last.preFree
     /\ AllocStep /\ last'.rt => last'.pChunk # NULL]_vars

\* Allocate, free, allocate returned the same chunk again.
RoundTripWitness ==
  /\ last.op = "alloc" /\ last.rt /\ last.same
  /\ mem_FreeChunksNumber[last.chunkType] = PoolCapacity(last.chunkType) - 1

\* C6: a free of a pointer outside every pool of the list of its chunk type
\* ends in the assertion.
StrayFreeAsserts == last.op = "badfree" => fault = "assert"

\* C7: an allocation that got a header chunk and then no space from the heap
\* leaves the pool of pool headers with as many free chunks as before.
HeaderChunkReleased ==
  [][AllocStep /\ last'.heapReq = 1 /\ last'.pChunk = NULL =>
       mem_PoolForPoolHeaders'.m_FreeChunksNumber
         = mem_PoolForPoolHeaders.m_FreeChunksNumber]_vars

\* C8: an allocation finding the counter zero and no free header chunk returns
\* NULL, asks the heap for nothing and changes nothing.
HeaderExhaustion ==
  [][(/\ AllocStep
      /\ mem_FreeChunksNumber[last'.chunkType] = 0
      /\ mem_PoolForPoolHeaders.m_FreeChunksNumber = 0)
     => (/\ last'.pChunk = NULL /\ last'.heapReq = 0 /\ fault' = "none"
         /\ UNCHANGED <<mem_Pools, mem_FreeChunksNumber, mem_PoolForPoolHeaders,
                        poolMem, heap>>)]_vars

\* An allocation failed for want of a header chunk.
HeaderExhaustionWitness ==
  /\ last.op = "alloc" /\ last.pChunk = NULL
  /\ last.hdrReq = 1 /\ last.heapReq = 0
  /\ mem_PoolForPoolHeaders.m_FreeChunksNumber = 0

\* C9: whenever no call is running, no linked pool has all of its chunks free;
\* a free that leaves a pool with all chunks free unlinks it in the same call,
\* and a pool gets linked only by an allocation that returns a chunk.
NoWhollyFreePool ==
  /\ [](initialized =>
         \A p \in LinkedPools :
           ~(poolMem[p].m_ChunksNumber > 0
             /\ poolMem[p].m_FreeChunksNumber = poolMem[p].m_ChunksNumber))
  /\ [][/\ FreeStep /\ last'.consolidated =>
           Cardinality(LinkedPools') = Cardinality(LinkedPools) - 1
        /\ initialized /\ LinkedPools' \ LinkedPools # {} =>
           AllocStep /\ last'.grown /\ last'.pChunk # NULL]_vars

\* A free freed a pool and left another pool of the type linked.
NoWhollyFreePoolWitness ==
  /\ last.op = "free" /\ last.consolidated
  /\ mem_Pools[last.chunkType] # NULL

\* C10: the spaces the heap has handed out are the space of the pool of pool
\* headers and one space of its own for every linked pool, and every linked
\* pool header is a used chunk of the pool of pool headers; an allocation that
\* returns NULL leaves the heap as it was, and a free that unlinks a pool gives
\* back its space and its header chunk in the same call.
HeaderAndSpaceTogether ==
  /\ [](initialized =>
         /\ heap = {[start |-> mem_SpaceForPoolForPoolHeaders,
                     size |-> HeadersSpaceSize]}
                   \cup {[start |-> poolMem[p].m_pPoolStart,
                          size |-> poolMem[p].m_PoolSize] : p \in LinkedPools}
         /\ Cardinality(heap) = 1 + Cardinality(LinkedPools)
         /\ LinkedPools \subseteq UsedChunks(mem_PoolForPoolHeaders))
  /\ [][/\ AllocStep /\ last'.pChunk = NULL => heap' = heap
        /\ FreeStep /\ last'.consolidated =>
             /\ Cardinality(heap') = Cardinality(heap) - 1
             /\ Cardinality(LinkedPools') = Cardinality(LinkedPools) - 1
             /\ mem_PoolForPoolHeaders'.m_FreeChunksNumber
                  = mem_PoolForPoolHeaders.m_FreeChunksNumber + 1]_vars

\* The heap refused a pool space while a pool of another type is linked.
HeaderAndSpaceTogetherWitness ==
  /\ last.op = "alloc" /\ last.heapReq = 1 /\ last.pChunk = NULL
  /\ LinkedPools # {}

\* C11: once mem_PoolsInit has run, the space of the pool of pool headers stays
\* with the pool manager, no linked pool lies over it, and the pool of pool
\* headers keeps its space and its number of chunks; a free gives back to the
\* heap only the space of a pool that was linked in the list of its chunk type.
HeaderPoolPermanent ==
  /\ [](initialized =>
         /\ [start |-> mem_SpaceForPoolForPoolHeaders, size |-> HeadersSpaceSize]
              \in heap
         /\ mem_PoolForPoolHeaders.m_pPoolStart = mem_SpaceForPoolForPoolHeaders
         /\ mem_PoolForPoolHeaders.m_pNextPool = NULL
         /\ \A p \in LinkedPools :
              poolMem[p].m_pPoolStart # mem_SpaceForPoolForPoolHeaders)
  /\ [][/\ initialized =>
            /\ mem_SpaceForPoolForPoolHeaders' = mem_SpaceForPoolForPoolHeaders
            /\ mem_PoolForPoolHeaders'.m_ChunksNumber
                 = mem_PoolForPoolHeaders.m_ChunksNumber
            /\ mem_PoolForPoolHeaders'.m_PoolSize = mem_PoolForPoolHeaders.m_PoolSize
        /\ FreeStep =>
            \A b \in heap \ heap' :
              \E p \in PoolsOf(last'.chunkType) : b.start = poolMem[p].m_pPoolStart]_vars

\* A free gave a pool space back to the heap while another pool stays linked.
HeaderPoolPermanentWitness ==
  /\ last.op = "free" /\ last.consolidated
  /\ LinkedPools # {}
  /\ Cardinality(heap) = 1 + Cardinality(LinkedPools)
  /\ mem_PoolForPoolHeaders.m_FreeChunksNumber < mem_PoolForPoolHeaders.m_ChunksNumber

\* C12: when mem_PoolsInit returns, every list is empty and every counter zero,
\* the heap has handed out the space of the pool of pool headers and nothing
\* else, and that pool lies over the space with all its chunks free; so the
\* allocation that follows, of whatever chunk type, asks for a header chunk and
\* a pool space, and returns a chunk if the heap gives the space.
InitializationHolds ==
  /\ [](last.op = "init" =>
         /\ \A t \in ChunkTypes : mem_Pools[t] = NULL /\ mem_FreeChunksNumber[t] = 0
         /\ heap = {[start |-> mem_SpaceForPoolForPoolHeaders,
                     size |-> HeadersSpaceSize]}
         /\ mem_SpaceForPoolForPoolHeaders # NULL
         /\ mem_PoolForPoolHeaders.m_pPoolStart = mem_SpaceForPoolForPoolHeaders
         /\ mem_PoolForPoolHeaders.m_PoolSize = HeadersSpaceSize
         /\ mem_PoolForPoolHeaders.m_ChunkSize >= sizeofPoolState
         /\ mem_PoolForPoolHeaders.m_ChunksNumber > 0
         /\ mem_PoolForPoolHeaders.m_FreeChunksNumber
              = mem_PoolForPoolHeaders.m_ChunksNumber
         /\ UsedChunks(mem_PoolForPoolHeaders) = {})
  /\ [][last.op = "init" /\ AllocStep =>
          /\ last'.hdrReq = 1 /\ last'.heapReq = 1
          /\ last'.grown <=> last'.pChunk # NULL
          /\ last'.grown <=>
               mem_HeapAllocBlock(heap, PoolSpaceSize(mem_GetChunkSize(last'.chunkType)))
                 # {NULL}]_vars

\* The first allocation after mem_PoolsInit allocated a pool of the largest
\* chunk type.
InitializationWitness ==
  /\ calls = 1 /\ last.op = "alloc" /\ last.grown
  /\ last.chunkType = MEM_POOL_CHUNK_TYPE__COUNT - 1
  /\ Cardinality(heap) = 2

\* The linked pools of the chunk type that handed out pChunk and have not got
\* it back.
IssuingPools(chunkType, pChunk) ==
  {q \in PoolsOf(chunkType) : pChunk \in UsedChunks(poolMem[q])}

\* C13: for every chunk the caller holds, the search of mem_PoolsFree stops at
\* the one pool that handed it out, also when pool spaces touch; the free
\* raises the free count of that pool and leaves the other pools of the list
\* as they are.
FreeRoutesToIssuer ==
  /\ [](\A t \in ChunkTypes : \A p \in live[t] :
          /\ Cardinality(IssuingPools(t, p)) = 1
          /\ FreeSearch(poolMem, mem_Pools[t], NULL, p).pool \in IssuingPools(t, p))
  /\ [][FreeStep =>
          LET t     == last'.chunkType
              after == Range(PoolList(poolMem', mem_Pools'[t]))
          IN  /\ fault' = "none"
              /\ \E p \in live[t] \ live'[t] : \E q \in IssuingPools(t, p) :
                    /\ IF last'.consolidated
                       THEN q \notin after
                       ELSE /\ poolMem'[q].m_FreeChunksNumber
                                 = poolMem[q].m_FreeChunksNumber + 1
                            /\ p \notin UsedChunks(poolMem'[q])
                    /\ \A r \in PoolsOf(t) \ {q} :
                         /\ r \in after
                         /\ poolMem'[r].m_FreeChunksNumber = poolMem[r].m_FreeChunksNumber
                         /\ poolMem'[r].bitmap = poolMem[r].bitmap]_vars

\* A chunk was freed into the second pool of the list, whose space begins
\* where the space of the first pool ends.
FreeRoutesToIssuerWitness ==
  /\ last.op = "free" /\ ~last.consolidated
  /\ Len(PoolList(poolMem, mem_Pools[0])) = 2
  /\ LET first  == poolMem[PoolList(poolMem, mem_Pools[0])[1]]
         second == poolMem[PoolList(poolMem, mem_Pools[0])[2]]
     IN  /\ first.m_pPoolStart + first.m_PoolSize = second.m_pPoolStart
         /\ first.m_FreeChunksNumber = first.m_ChunksNumber - 1
         /\ second.m_FreeChunksNumber = 1

\* C14: with callers that keep the contract the program never stops in an
\* assertion or a fault: whenever the counter of a chunk type is not zero, the
\* walk from the head of its list finds a pool with a free chunk, so an
\* allocation that does not fail in the growth step returns a chunk.
SearchAlwaysFinds ==
  /\ [](/\ fault = "none"
        /\ initialized =>
             \A t \in ChunkTypes :
               mem_FreeChunksNumber[t] # 0 =>
                 /\ mem_Pools[t] # NULL
                 /\ AllocSearch(poolMem, mem_Pools[t]) # NULL)
  /\ [][AllocStep /\ (last'.hdrReq = 0 \/ last'.grown) =>
          /\ fault' = "none"
          /\ last'.pChunk # NULL
          /\ last'.pChunk \in
               UNION {UsedChunks(poolMem'[q]) :
                        q \in Range(PoolList(poolMem', mem_Pools'[last'.chunkType]))}]_vars

\* An allocation walked past the full pool at the head of the list and took a
\* chunk of the pool behind it.
SearchAlwaysFindsWitness ==
  /\ last.op = "alloc" /\ last.hdrReq = 0 /\ last.pChunk # NULL
  /\ Len(PoolList(poolMem, mem_Pools[last.chunkType])) = 2
  /\ poolMem[mem_Pools[last.chunkType]].m_FreeChunksNumber = 0
  /\ last.pChunk \notin UsedChunks(poolMem[mem_Pools[last.chunkType]])

\* The sequence without its i-th element.
Without(seq, i) ==
  [j \in 1 .. (Len(seq) - 1) |-> IF j < i THEN seq[j] ELSE seq[j + 1]]

\* C15: a free that leaves a pool with all chunks free takes exactly that pool
\* out of the list, wherever it stands, and leaves the other pools linked in
\* their order and with their chunks as they were; the counter, raised by one
\* for the freed chunk, goes down by the chunk count of the pool; the heap gets
\* back that pool's space and nothing else, and the pool of pool headers gets
\* back that pool's header chunk and nothing else.
ConsolidationUnlinksOne ==
  [][FreeStep /\ last'.consolidated =>
       LET t      == last'.chunkType
           before == PoolList(poolMem, mem_Pools[t])
           after  == PoolList(poolMem', mem_Pools'[t])
       IN  \E i \in 1 .. Len(before) :
             LET gone == before[i]
             IN  /\ after = Without(before, i)
                 /\ poolMem[gone].m_FreeChunksNumber = poolMem[gone].m_ChunksNumber - 1
                 /\ \A r \in Range(after) :
                      /\ poolMem'[r].m_FreeChunksNumber = poolMem[r].m_FreeChunksNumber
                      /\ poolMem'[r].m_FreeChunksNumber < poolMem'[r].m_ChunksNumber
                      /\ poolMem'[r].bitmap = poolMem[r].bitmap
                      /\ poolMem'[r].m_pPoolStart = poolMem[r].m_pPoolStart
                 /\ mem_FreeChunksNumber'[t]
                      = mem_FreeChunksNumber[t] + 1 - poolMem[gone].m_ChunksNumber
                 /\ heap' = heap \ {[start |-> poolMem[gone].m_pPoolStart,
                                      size |-> poolMem[gone].m_PoolSize]}
                 /\ Cardinality(heap') = Cardinality(heap) - 1
                 /\ UsedChunks(mem_PoolForPoolHeaders')
                      = UsedChunks(mem_PoolForPoolHeaders) \ {gone}
                 /\ mem_PoolForPoolHeaders'.m_FreeChunksNumber
                      = mem_PoolForPoolHeaders.m_FreeChunksNumber + 1]_vars

\* A free freed the middle pool of a list of three: two pools stay linked, and
\* the space between theirs is free.
ConsolidationUnlinksOneWitness ==
  /\ last.op = "free" /\ last.consolidated
  /\ Len(PoolList(poolMem, mem_Pools[0])) = 2
  /\ LET first  == poolMem[PoolList(poolMem, mem_Pools[0])[1]]
         second == poolMem[PoolList(poolMem, mem_Pools[0])[2]]
     IN  /\ first.m_pPoolStart = second.m_pPoolStart + 2 * second.m_PoolSize
         /\ first.m_FreeChunksNumber = first.m_ChunksNumber - 1
         /\ second.m_FreeChunksNumber = 0
         /\ \A b \in heap : b.start # second.m_pPoolStart + second.m_PoolSize

\* C16: an allocation that allocates a pool links it as the head of the list,
\* in front of the former head, and leaves the rest of the list as it was;
\* every allocation that returns a chunk takes it from the first pool of the
\* list that has a free chunk, lowers the free count of that pool by one and
\* the counter (with the chunks of a new pool added) by one, and leaves the
\* pools that were linked before and are not the one taken from as they were.
FirstFit ==
  [][AllocStep /\ last'.pChunk # NULL =>
       LET t      == last'.chunkType
           before == PoolList(poolMem, mem_Pools[t])
           after  == PoolList(poolMem', mem_Pools'[t])
           added  == IF last'.grown THEN poolMem'[after[1]].m_ChunksNumber ELSE 0
       IN  /\ IF last'.grown
              THEN /\ after = <<mem_Pools'[t]>> \o before
                   /\ mem_Pools'[t] \notin Range(before)
                   /\ poolMem'[mem_Pools'[t]].m_pNextPool = mem_Pools[t]
              ELSE after = before
           /\ \E i \in 1 .. Len(after) :
                /\ last'.pChunk \in UsedChunks(poolMem'[after[i]])
                /\ last'.grown => i = 1
                /\ \A j \in 1 .. (i - 1) : poolMem[after[j]].m_FreeChunksNumber = 0
                /\ poolMem'[after[i]].m_FreeChunksNumber =
                     (IF last'.grown THEN added
                      ELSE poolMem[after[i]].m_FreeChunksNumber) - 1
                /\ \A r \in Range(before) \ {after[i]} :
                     /\ poolMem'[r].m_FreeChunksNumber = poolMem[r].m_FreeChunksNumber
                     /\ poolMem'[r].bitmap = poolMem[r].bitmap
                     /\ poolMem'[r].m_pNextPool = poolMem[r].m_pNextPool
           /\ mem_FreeChunksNumber'[t] = mem_FreeChunksNumber[t] + added - 1]_vars

\* With three pools linked and a free chunk in the second, an allocation took
\* its chunk from the head.
FirstFitWitness ==
  /\ last.op = "alloc" /\ ~last.grown /\ last.pChunk # NULL
  /\ Len(PoolList(poolMem, mem_Pools[0])) = 3
  /\ last.pChunk \in UsedChunks(poolMem[PoolList(poolMem, mem_Pools[0])[1]])
  /\ poolMem[PoolList(poolMem, mem_Pools[0])[2]].m_FreeChunksNumber > 0

\* C17: the linked pools are never more than the chunks of the pool of pool
\* headers; a free that frees a pool leaves a header chunk free; and when an
\* allocation got no header chunk, a free then frees a pool of whatever chunk
\* type, and the next allocation needs a new pool, that allocation gets its
\* header chunk, and allocates the pool and returns a chunk if the heap has
\* room for the pool space.
HeaderSlotsRecycled ==
  /\ [](initialized =>
         Cardinality(LinkedPools) <= mem_PoolForPoolHeaders.m_ChunksNumber)
  /\ [][/\ FreeStep /\ last'.consolidated =>
             /\ mem_PoolForPoolHeaders'.m_FreeChunksNumber > 0
             /\ mem_PoolAllocChunk(mem_PoolForPoolHeaders') # NULL
        /\ AllocStep /\ last'.recycle = 3 =>
             /\ last'.heapReq = 1
             /\ mem_HeapAllocBlock(heap, PoolSpaceSize(mem_GetChunkSize(last'.chunkType)))
                  # {NULL}
                => last'.grown /\ last'.pChunk # NULL]_vars

\* With four pools linked an allocation of a fifth chunk type got no header
\* chunk; the pool of 4 byte chunks was freed, and the allocation, repeated,
\* allocated its pool with the header chunk that came back.
HeaderSlotsRecycledWitness ==
  /\ last.op = "alloc" /\ last.recycle = 3 /\ last.grown
  /\ last.chunkType # 0 /\ mem_Pools[0] = NULL
  /\ Cardinality(LinkedPools) = mem_PoolForPoolHeaders.m_ChunksNumber
  /\ mem_PoolForPoolHeaders.m_FreeChunksNumber = 0

\* C18: a call of mem_PoolsAlloc or mem_PoolsFree for one chunk type leaves the
\* head, the list, the pools and the counter of every other chunk type as
\* they were.
ChunkTypesIsolated ==
  [][AllocStep \/ FreeStep =>
       \A t \in ChunkTypes \ {last'.chunkType} :
         /\ mem_Pools'[t] = mem_Pools[t]
         /\ PoolList(poolMem', mem_Pools'[t]) = PoolList(poolMem, mem_Pools[t])
         /\ \A p \in PoolsOf(t) : poolMem'[p] = poolMem[p]
         /\ mem_FreeChunksNumber'[t] = mem_FreeChunksNumber[t]
         /\ live'[t] = live[t]]_vars

\* A pool of one chunk type was freed while a pool of another chunk type is
\* linked, with chunks free and chunks in use.
ChunkTypesIsolatedWitness ==
  /\ last.op = "free" /\ last.consolidated
  /\ \E t \in ChunkTypes \ {last.chunkType} :
       /\ mem_Pools[t] # NULL
       /\ mem_FreeChunksNumber[t] > 0
       /\ Cardinality(live[t]) > 1

\* C19: whatever the size of a pool header, the pool of pool headers that
\* mem_PoolsInit constructs has at least four chunks, each large enough for a
\* pool header.
HeaderPoolHoldsFour ==
  initialized =>
    /\ mem_PoolForPoolHeaders.m_ChunkSize >= sizeofPoolState
    /\ mem_PoolForPoolHeaders.m_ChunksNumber >= PoolHeadersInSpace

\* C20: one allocation asks the pool of pool headers for at most one chunk and
\* the heap for at most one space, and the heap only when it has got the header
\* chunk; when it gets no header chunk or no space it returns NULL, having taken
\* nothing from the heap and nothing but that one header chunk, and having left
\* the lists and the pools as they were.
NoRetry ==
  [][AllocStep =>
       /\ last'.hdrReq \in {0, 1} /\ last'.heapReq \in {0, 1}
       /\ last'.heapReq = 1 =>
            /\ last'.hdrReq = 1
            /\ mem_PoolAllocChunk(mem_PoolForPoolHeaders) # NULL
       /\ mem_PoolForPoolHeaders.m_FreeChunksNumber
            - mem_PoolForPoolHeaders'.m_FreeChunksNumber \in {0, last'.heapReq}
       /\ Cardinality(heap') - Cardinality(heap) \in {0, last'.heapReq}
       /\ last'.hdrReq = 1 /\ ~last'.grown =>
            /\ last'.pChunk = NULL /\ fault' = "none"
            /\ heap' = heap
            /\ UNCHANGED <<mem_Pools, mem_FreeChunksNumber, live>>
            /\ \A p \in LinkedPools : poolMem'[p] = poolMem[p]]_vars

\* The heap refused every pool space asked for, then the pool of pool headers
\* had no chunk left: the allocation returned NULL without asking the heap.
NoRetryWitness ==
  /\ last.op = "alloc" /\ last.pChunk = NULL
  /\ last.hdrReq = 1 /\ last.heapReq = 0
  /\ LinkedPools = {} /\ Cardinality(heap) = 1
  /\ calls = mem_PoolForPoolHeaders.m_ChunksNumber + 1

====
